---- MODULE Spec2Model ----
(***************************************************************************)
(* A model of sendrepo.py: the configuration search cascade, the loading   *)
(* of the configuration document, the assembly of the rsync argument       *)
(* vector, the hook sequencing of sync_project and the control flow of     *)
(* main().                                                                 *)
(*                                                                         *)
(* A path is a sequence of tokens.  A token is one of the separators ":",  *)
(* "\\", "/" or a name that contains none of them, so that slicing a path  *)
(* at character positions 1..3 and replacing "\\" by "/" can be computed   *)
(* on tokens exactly as Python computes them on characters.  Joining the   *)
(* tokens gives the string that reaches an argument vector.                *)
(***************************************************************************)
EXTENDS Integers, Sequences, FiniteSets, TLC

VARIABLES
    platform,        \* sys.platform
    environ,         \* the process environment: the set of variables that are set
    files,           \* the filesystem: the set of (normalised) paths that exist
    document,        \* the configuration document as it stands on disk
    argv,            \* the command line of the process, one field per option
    specified_path,  \* the config_path argument of SendRepo(config_path)
    pc,              \* position of the process in main() / of the caller
    config_path,     \* self.config_path
    config,          \* self.config
    projects,        \* self.projects
    ran,             \* every external command started so far, in order
    sync,            \* what the last sync_project call built, printed and reached
    exit_status      \* exit status of the process once it has ended

vars == <<platform, environ, files, document, argv, specified_path, pc,
          config_path, config, projects, ran, sync, exit_status>>

-----------------------------------------------------------------------------
(* Bounds of the model.                                                    *)

\* longest list of project exclude patterns
MaxExclude == 2

\* datetime.now() is one of the instants 0..MaxClock
MaxClock == 1

-----------------------------------------------------------------------------
(* Strings and paths.                                                      *)

RECURSIVE Join(_)
\* ''.join(tokens)
Join(s) == IF s = <<>> THEN "" ELSE Head(s) \o Join(Tail(s))

\* the value None of an optional path or string
None == <<>>

\* os.sep of the host
Sep(plat) == IF plat = "win32" THEN "\\" ELSE "/"

IsSep(tok) == tok \in {"\\", "/"}

\* s[i:] on a sequence, i counted from 0
From(s, i) == IF i >= Len(s) THEN <<>> ELSE SubSeq(s, i + 1, Len(s))

\* s without its last n elements
DropLast(s, n) == IF n >= Len(s) THEN <<>> ELSE SubSeq(s, 1, Len(s) - n)

\* os.path.join(path, name) for a relative one-component name
PathJoin(plat, path, name) == path \o <<Sep(plat), name>>

\* os.path.dirname(path): everything before the last separator
DirName(path) ==
    IF Len(path) >= 2 /\ IsSep(path[Len(path) - 1]) /\ ~IsSep(path[Len(path)])
    THEN DropLast(path, 2)
    ELSE path

RECURSIVE NormFrom(_, _)
\* the tokens of rest appended to done, a component followed by ".." collapsed
NormFrom(done, rest) ==
    IF rest = <<>> THEN done
    ELSE IF /\ Len(rest) >= 2 /\ IsSep(rest[1]) /\ rest[2] = ".."
            /\ Len(done) >= 2 /\ IsSep(done[Len(done) - 1])
         THEN NormFrom(DropLast(done, 2), From(rest, 2))
         ELSE NormFrom(Append(done, Head(rest)), Tail(rest))

\* os.path.normpath(path)
NormPath(path) == NormFrom(<<>>, path)

\* os.path.exists(path) in filesystem fs
PathExists(fs, path) == NormPath(path) \in fs

\* the directory holding sendrepo.py: os.path.dirname(os.path.realpath(__file__))
ScriptDir(plat) ==
    IF plat = "win32" THEN <<"C", ":", "\\", "tools", "\\", "sendrepo">>
    ELSE <<"/", "opt", "/", "sendrepo">>

\* the value of APPDATA (win32)
AppData == <<"C", ":", "\\", "AppData">>

\* os.path.expanduser("~/.config/sendrepo")
HomeConfigDir == <<"/", "home", "/", "u", "/", ".config", "/", "sendrepo">>

\* the value of SENDREPO_CONFIG_PATH when it is set
EnvConfigPath(plat) ==
    IF plat = "win32" THEN <<"D", ":", "\\", "conf", "\\", "sr.yaml">>
    ELSE <<"/", "etc", "/", "sr", "/", "sr.yaml">>

\* os.getenv('SENDREPO_CONFIG_PATH'): None when unset
GetEnvConfigPath(plat, env) ==
    IF "SENDREPO_CONFIG_PATH" \in env THEN EnvConfigPath(plat) ELSE None

\* a path a caller may hand to SendRepo(config_path)
ExplicitConfigPath(plat) ==
    IF plat = "win32" THEN <<"E", ":", "/", "my", "/", "config.yaml">>
    ELSE <<"/", "my", "/", "config.yaml">>

-----------------------------------------------------------------------------
(* SendRepo._find_config_file                                              *)

UserConfigPath(plat) ==
    IF plat = "win32"
    THEN PathJoin(plat, PathJoin(plat, AppData, "sendrepo"), "config.yaml")
    ELSE PathJoin(plat, HomeConfigDir, "config.yaml")

AdjacentConfigPath(plat) ==
    PathJoin(plat, PathJoin(plat, PathJoin(plat, ScriptDir(plat), ".."),
                            "sendrepo-config"), "config.yaml")

ScriptConfigPath(plat) == PathJoin(plat, ScriptDir(plat), "config.yaml")

\* a faulty variant of _find_config_file: the user directory is looked at
\* before the file the environment names
FindConfigFileUserFirst(plat, env, fs, specified) ==
    IF specified # None /\ PathExists(fs, specified) THEN specified
    ELSE IF PathExists(fs, UserConfigPath(plat)) THEN UserConfigPath(plat)
    ELSE IF /\ GetEnvConfigPath(plat, env) # None
            /\ PathExists(fs, GetEnvConfigPath(plat, env))
         THEN GetEnvConfigPath(plat, env)
    ELSE IF PathExists(fs, AdjacentConfigPath(plat))
         THEN NormPath(AdjacentConfigPath(plat))
    ELSE IF PathExists(fs, ScriptConfigPath(plat)) THEN ScriptConfigPath(plat)
    ELSE None

\* _find_config_file(specified_path): the first existing candidate, or None
FindConfigFile(plat, env, fs, specified) ==
    IF specified # None /\ PathExists(fs, specified) THEN specified
    ELSE IF /\ GetEnvConfigPath(plat, env) # None
            /\ PathExists(fs, GetEnvConfigPath(plat, env))
         THEN GetEnvConfigPath(plat, env)
    ELSE IF PathExists(fs, UserConfigPath(plat)) THEN UserConfigPath(plat)
    ELSE IF PathExists(fs, AdjacentConfigPath(plat))
         THEN NormPath(AdjacentConfigPath(plat))
    ELSE IF PathExists(fs, ScriptConfigPath(plat)) THEN ScriptConfigPath(plat)
    ELSE None

-----------------------------------------------------------------------------
(* SendRepo._find_global_exclude_file                                      *)

\* possible_paths, in the order the method appends them
GlobalExcludeCandidates(plat, env) ==
    LET env_config_path == GetEnvConfigPath(plat, env)
        user_config_dir == IF plat = "win32"
                           THEN PathJoin(plat, AppData, "sendrepo")
                           ELSE HomeConfigDir
        script_dir == ScriptDir(plat)
        adjacent_config_dir == PathJoin(plat, DirName(script_dir), "sendrepo-config")
    IN  (IF env_config_path # None
         THEN <<PathJoin(plat, DirName(NormPath(env_config_path)), ".sr-ignore-global.txt")>>
         ELSE <<>>)
        \o <<PathJoin(plat, user_config_dir, ".sr-ignore-global.txt"),
             PathJoin(plat, adjacent_config_dir, ".sr-ignore-global.txt"),
             PathJoin(plat, script_dir, ".sr-ignore-global.txt")>>

RECURSIVE FirstExisting(_, _)
\* the loop "for path in possible_paths: if os.path.exists(path): return path"
FirstExisting(fs, paths) ==
    IF paths = <<>> THEN None
    ELSE IF PathExists(fs, Head(paths)) THEN Head(paths)
    ELSE FirstExisting(fs, Tail(paths))

FindGlobalExcludeFile(plat, env, fs) ==
    FirstExisting(fs, GlobalExcludeCandidates(plat, env))

-----------------------------------------------------------------------------
(* SendRepo._windows_to_wsl_path                                           *)

\* str.lower() of a drive letter
Lower(c) ==
    CASE c = "C" -> "c"
      [] c = "D" -> "d"
      [] c = "E" -> "e"
      [] OTHER -> c

\* str.replace('\\', '/') on the tokens of a path
ReplaceBackslash(path) ==
    [i \in 1..Len(path) |-> IF path[i] = "\\" THEN "/" ELSE path[i]]

\* path[1:3] == ':\\' or path[1:3] == ':/' : the first token is one character,
\* the second is the colon and the third a separator
HasDrivePrefix(path) ==
    /\ Len(path) >= 3
    /\ Len(path[1]) = 1
    /\ path[2] = ":"
    /\ IsSep(path[3])

WindowsToWslPath(plat, path) ==
    IF plat = "win32" /\ path # None /\ HasDrivePrefix(path)
    THEN <<"/", "mnt", "/", Lower(path[1]), "/">> \o ReplaceBackslash(From(path, 3))
    ELSE path

-----------------------------------------------------------------------------
(* The configuration document and SendRepo._load_config                    *)

\* an absent optional key of a mapping
Opt(key, present, value) == IF present THEN key :> value ELSE <<>>

\* mapping.get(key, default)
Get(mapping, key, default) ==
    IF key \in DOMAIN mapping THEN mapping[key] ELSE default

RECURSIVE FormatTokens(_, _, _)
\* str.format(placeholder=value): the placeholder token replaced by the value
FormatTokens(template, placeholder, value) ==
    IF template = <<>> THEN <<>>
    ELSE (IF Head(template) = placeholder THEN value ELSE <<Head(template)>>)
         \o FormatTokens(Tail(template), placeholder, value)

\* os.path.expanduser(path)
ExpandUser(path) ==
    IF path # <<>> /\ Head(path) = "~"
    THEN <<"/", "home", "/", "u">> \o Tail(path)
    ELSE path

\* _load_config(config_path) applied to the parsed document doc
LoadConfig(doc) ==
    LET root == ExpandUser(Get(doc, "root", <<>>))
    IN  IF "projects" \in DOMAIN doc
        THEN [doc EXCEPT !.projects =
                 [name \in DOMAIN doc.projects |->
                     [doc.projects[name] EXCEPT
                         !.path = FormatTokens(@, "{root}", root)]]]
        ELSE doc

\* a faulty variant: a name the configuration does not have is listed too
GetProjectChoicesWithGhost(cfg) == DOMAIN Get(cfg, "projects", <<>>) \cup {"ghost"}

\* _get_project_choices(): list(self.config.get('projects', {}).keys()), the
\* keys being unique the list is modelled by their set
GetProjectChoices(cfg) == DOMAIN Get(cfg, "projects", <<>>)

-----------------------------------------------------------------------------
(* SendRepo._run_command and the log of external commands                  *)

\* one subprocess: what was started, through a shell or not, where, and the
\* exit code it returned
Command(kind, args, cwd, returncode) ==
    [kind |-> kind, args |-> args, shell |-> FALSE, cwd |-> cwd,
     returncode |-> returncode]

\* a command given as one string runs through the shell (shell=isinstance(command, str))
ShellCommand(kind, line, cwd, returncode) ==
    [kind |-> kind, args |-> <<line>>, shell |-> TRUE, cwd |-> cwd,
     returncode |-> returncode]

-----------------------------------------------------------------------------
(* SendRepo.sync_project: the argument vector                              *)

\* datetime.now().strftime('%Y-%m-%d_%H-%M-%S') at instant t
Strftime(t) == "2026-01-01_00-00-0" \o ToString(t)

\* the template has the placeholder: '{timestamp}' in backup_dir
HasTimestamp(backup_dir) == \E i \in 1..Len(backup_dir) : backup_dir[i] = "{timestamp}"

\* a faulty variant: the template is handed on with its placeholder
BackupDirRaw(project, now) == Get(project, "backup_dir", None)

\* a faulty variant: the instant is appended to a template without placeholder
BackupDirAlwaysStamped(project, now) ==
    LET backup_dir == Get(project, "backup_dir", None)
    IN  IF backup_dir = None THEN backup_dir
        ELSE IF HasTimestamp(backup_dir)
        THEN FormatTokens(backup_dir, "{timestamp}", <<Strftime(now)>>)
        ELSE backup_dir \o <<Strftime(now)>>

\* lines 258, 267-270: the backup directory after the timestamp is filled in
\* (None, the empty sequence, stands for a missing or empty backup_dir)
BackupDir(project, now) ==
    LET backup_dir == Get(project, "backup_dir", None)
    IN  IF backup_dir # None /\ HasTimestamp(backup_dir)
        THEN FormatTokens(backup_dir, "{timestamp}", <<Strftime(now)>>)
        ELSE backup_dir

\* a faulty variant of the transport override: the port gets a -e of its own
SshArgsSeparate(project) ==
    LET port == Get(project, "port", 0)
        ssh_jump_host == Get(project, "ssh_jump_host", "")
    IN  (IF ssh_jump_host # "" THEN <<"-e", "ssh -J " \o ssh_jump_host>> ELSE <<>>)
        \o (IF port # 0 THEN <<"-e", "ssh -p " \o ToString(port)>> ELSE <<>>)

\* lines 296-304: the transport override; a missing port or jump host is falsy
SshArgs(project) ==
    LET port == Get(project, "port", 0)
        ssh_jump_host == Get(project, "ssh_jump_host", "")
    IN  IF ssh_jump_host # ""
        THEN <<"-e", ("ssh -J " \o ssh_jump_host)
                     \o (IF port # 0 THEN " -p " \o ToString(port) ELSE "")>>
        ELSE IF port # 0 THEN <<"-e", "ssh -p " \o ToString(port)>>
        ELSE <<>>

\* lines 306-309
IncludeArgs(include_env) ==
    IF include_env THEN <<"--include", ".env", "--include", ".env.*">> ELSE <<>>

\* a faulty variant: the global exclude file is named whether it was found or not
ExcludeFromArgsAlways(plat, global_exclude_file) ==
    <<"--exclude-from",
      Join(IF plat = "win32" THEN WindowsToWslPath(plat, global_exclude_file)
           ELSE global_exclude_file)>>

\* lines 311-314
ExcludeFromArgs(plat, global_exclude_file) ==
    IF global_exclude_file # None
    THEN <<"--exclude-from",
           Join(IF plat = "win32" THEN WindowsToWslPath(plat, global_exclude_file)
                ELSE global_exclude_file)>>
    ELSE <<>>

RECURSIVE ExcludeArgs(_)
\* lines 316-318
ExcludeArgs(exclude_patterns) ==
    IF exclude_patterns = <<>> THEN <<>>
    ELSE <<"--exclude", Head(exclude_patterns)>> \o ExcludeArgs(Tail(exclude_patterns))

\* a faulty variant: the destination is appended before the source
DestinationAndSource(plat, project) ==
    <<project.remote,
      Join(IF plat = "win32" THEN WindowsToWslPath(plat, project.path)
           ELSE project.path)>>

\* lines 320-322
SourceAndDestination(plat, project) ==
    <<Join(IF plat = "win32" THEN WindowsToWslPath(plat, project.path)
           ELSE project.path),
      project.remote>>

\* a faulty variant of rsync_cmd: the include rules are appended after the
\* exclude rules
RsyncCmdExcludesFirst(plat, project, global_exclude_file, backup_dir, dry_run, include_env) ==
    <<"rsync", "-avz", "--itemize-changes", "--delete">>
    \o (IF dry_run THEN <<"--dry-run">> ELSE <<>>)
    \o (IF backup_dir # None
        THEN <<"--backup", "--backup-dir=" \o Join(backup_dir)>> ELSE <<>>)
    \o SshArgs(project)
    \o ExcludeFromArgs(plat, global_exclude_file)
    \o ExcludeArgs(Get(project, "exclude", <<>>))
    \o IncludeArgs(include_env)
    \o SourceAndDestination(plat, project)

\* lines 281-322: rsync_cmd
RsyncCmd(plat, project, global_exclude_file, backup_dir, dry_run, include_env) ==
    <<"rsync", "-avz", "--itemize-changes", "--delete">>
    \o (IF dry_run THEN <<"--dry-run">> ELSE <<>>)
    \o (IF backup_dir # None
        THEN <<"--backup", "--backup-dir=" \o Join(backup_dir)>> ELSE <<>>)
    \o SshArgs(project)
    \o IncludeArgs(include_env)
    \o ExcludeFromArgs(plat, global_exclude_file)
    \o ExcludeArgs(Get(project, "exclude", <<>>))
    \o SourceAndDestination(plat, project)

-----------------------------------------------------------------------------
(* SendRepo.sync_project: the sequence of steps                            *)

\* exit codes an external command may return
ExitCodes == {0, 1}

\* a faulty variant of the hook condition: dry_run is not looked at
RunsHookInDryRun(project, hook, dry_run) == hook \in DOMAIN project

\* "if 'pre_send' in project and not dry_run" / "if 'post_send' in project and not dry_run"
RunsHook(project, hook, dry_run) == hook \in DOMAIN project /\ ~dry_run

\* a faulty variant: the exit code of the pre-send hook is not looked at
PreSendIgnored(return_code) == TRUE

\* "if return_code != 0: ... return" after the pre-send hook: the sync goes on
\* only when the hook returned 0
PreSendPassed(return_code) == return_code = 0

\* a faulty variant: the exit code of the mirroring tool is not looked at
TransferIgnored(return_code) == TRUE

\* "if return_code == 0" after the mirroring tool
TransferSucceeded(return_code) == return_code = 0

\* lines 361-364: the post-send hook is wrapped for WSL on win32
PostSendCommand(plat, project, returncode) ==
    IF plat = "win32"
    THEN Command("post_send", <<"wsl", "bash", "-c", project.post_send>>, "", returncode)
    ELSE ShellCommand("post_send", project.post_send, "", returncode)

\* _check_wsl_available(): subprocess.run(['wsl', '--list', '--quiet'], check=True)
WslProbe(returncode) == Command("wsl_check", <<"wsl", "--list", "--quiet">>, "", returncode)

\* a faulty variant: WSL is taken to be there whatever the probe returns
WslAssumed(returncode) == TRUE

\* _check_wsl_available() is True when the probe ran and returned 0; a probe that
\* fails or cannot be started (recorded as a non-zero code) gives False
CheckWslAvailable(returncode) == returncode = 0

\* the record of a sync_project call that has not been made
NoSync ==
    [project_name |-> "", dry_run |-> FALSE, include_env |-> FALSE, from |-> 0,
     state |-> "Idle", rsync_cmd |-> <<>>, command |-> <<>>, timestamps |-> <<>>,
     backup_printed |-> "", post_failed |-> FALSE, global_exclude_file |-> None]

\* sync_project(project_name, dry_run, include_env) run to its return, given the
\* instant read by datetime.now() and the exit codes of the hooks, of the WSL
\* probe and of the mirroring tool: the log of commands and the record of the
\* call
SyncProjectRun(plat, env, fs, cfg, log, project_name, dry_run, include_env, now, pre_rc, wsl_rc, rc, post_rc) ==
    LET project == cfg.projects[project_name]
        source_path == project.path
        global_exclude_file == FindGlobalExcludeFile(plat, env, fs)
        template == Get(project, "backup_dir", None)
        backup_dir == BackupDir(project, now)
        timestamps == IF template # None /\ HasTimestamp(template)
                      THEN <<Strftime(now)>> ELSE <<>>
        runs_pre == RunsHook(project, "pre_send", dry_run)
        log1 == IF runs_pre
                THEN Append(log, ShellCommand("pre_send", project.pre_send,
                                              Join(source_path), pre_rc))
                ELSE log
        rsync_cmd == RsyncCmd(plat, project, global_exclude_file, backup_dir,
                              dry_run, include_env)
        log2 == IF plat = "win32" THEN Append(log1, WslProbe(wsl_rc)) ELSE log1
        command == IF plat = "win32" THEN <<"wsl">> \o rsync_cmd ELSE rsync_cmd
        log3 == Append(log2, Command("rsync", command, "", rc))
        runs_post == RunsHook(project, "post_send", dry_run)
        log4 == IF runs_post THEN Append(log3, PostSendCommand(plat, project, post_rc))
                ELSE log3
        call == [NoSync EXCEPT !.project_name = project_name,
                               !.dry_run = dry_run,
                               !.include_env = include_env,
                               !.from = Len(log),
                               !.global_exclude_file = global_exclude_file,
                               !.timestamps = timestamps]
    IN  IF runs_pre /\ ~PreSendPassed(pre_rc)
        THEN [ran |-> log1, sync |-> [call EXCEPT !.state = "PreSendFailed"]]
        ELSE IF plat = "win32" /\ ~CheckWslAvailable(wsl_rc)
        THEN [ran |-> log2,
              sync |-> [call EXCEPT !.state = "PlatformUnavailable",
                                    !.rsync_cmd = rsync_cmd]]
        ELSE IF plat \notin {"win32", "linux"}
        THEN [ran |-> log2,
              sync |-> [call EXCEPT !.state = "UnsupportedPlatform",
                                    !.rsync_cmd = rsync_cmd]]
        ELSE LET started == [call EXCEPT
                                !.rsync_cmd = rsync_cmd,
                                !.command = command,
                                !.backup_printed =
                                    IF backup_dir # None THEN Join(backup_dir) ELSE ""]
             IN  IF TransferSucceeded(rc)
                 THEN [ran |-> log4,
                       sync |-> [started EXCEPT
                                    !.state = "Done",
                                    !.post_failed = runs_post /\ post_rc # 0]]
                 ELSE [ran |-> log3,
                       sync |-> [started EXCEPT !.state = "TransferFailed"]]

\* a faulty variant: the formatted backup directory is stored in the project
ProjectWithFormattedBackupDir(project, backup_dir) ==
    IF "backup_dir" \in DOMAIN project THEN [project EXCEPT !.backup_dir = backup_dir]
    ELSE project

\* lines 253-258 and 270: the project's values are read into local names, and
\* the formatted backup directory is bound to the local name backup_dir; the
\* mapping of the project is what it was
ProjectAfterSync(project, backup_dir) == project

\* the call as a step of the program: the instant and the outcomes of the
\* commands it starts are chosen by the environment (a command that follows a
\* failed one is not started, and has no exit code to choose)
\* (line 251 raises KeyError for a name the configuration does not have, before
\* anything is run)
SyncProject(project_name, dry_run, include_env) ==
    IF project_name \notin DOMAIN Get(config, "projects", <<>>)
    THEN /\ ran' = ran
         /\ sync' = [NoSync EXCEPT !.project_name = project_name, !.state = "KeyError"]
         /\ config' = config
    ELSE
    \E now \in 0..MaxClock, pre_rc \in ExitCodes, wsl_rc \in ExitCodes :
    \E rc \in (IF pre_rc = 0 /\ wsl_rc = 0 THEN ExitCodes ELSE {0}) :
    \E post_rc \in (IF rc = 0 THEN ExitCodes ELSE {0}) :
        LET r == SyncProjectRun(platform, environ, files, config, ran,
                                project_name, dry_run, include_env,
                                now, pre_rc, wsl_rc, rc, post_rc)
        IN  /\ ran' = r.ran
            /\ sync' = r.sync
            /\ config' = [config EXCEPT !.projects[project_name] =
                                            ProjectAfterSync(@, BackupDir(@, now))]

-----------------------------------------------------------------------------
(* The inputs: hosts, filesystems, configuration documents, command lines. *)

Platforms == {"win32", "linux", "darwin"}

\* the environments: SENDREPO_CONFIG_PATH set or not (APPDATA is set on win32)
Environments == {{}, {"SENDREPO_CONFIG_PATH"}}

\* exclude patterns a project may list
Patterns == {".git", ".env"}

\* the lists of at most n patterns
PatternLists(n) == UNION {[1..k -> Patterns] : k \in 0..n}

\* a project entry of the document; an absent key is left out of the mapping
ProjectEntry(path, exclude, port, ssh_jump_host, backup_dir, pre_send, post_send) ==
    [path |-> path, remote |-> "user@host:/srv/app"]
    @@ Opt("exclude", exclude # <<"-">>, exclude)
    @@ Opt("port", port # 0, port)
    @@ Opt("ssh_jump_host", ssh_jump_host # "", ssh_jump_host)
    @@ Opt("backup_dir", backup_dir # None, backup_dir)
    @@ Opt("pre_send", pre_send # "", pre_send)
    @@ Opt("post_send", post_send # "", post_send)

\* root and path template of a project: under the home directory, under a
\* Windows root, and an absolute Windows path written with forward slashes
Locations ==
    {<< <<"~", "/", "w">>, <<"{root}", "/", "app">> >>,
     << <<"C", ":", "\\", "w">>, <<"{root}", "\\", "app">> >>,
     << <<"C", ":", "\\", "w">>, <<"D", ":", "/", "site">> >>}

BackupDirs == {None, <<"/", "srv", "/", "bak">>, <<"/", "srv", "/", "bak-", "{timestamp}">>}

\* a document with the one project "app"
OneProject(root, entry) == [root |-> root, projects |-> ("app" :> entry)]

\* documents for the calls of sync_project: every combination of exclude list
\* (<<"-">> for no exclude key), port, jump host and backup directory, and
\* every combination of location and hooks
SyncDocuments ==
    {OneProject(<<"C", ":", "\\", "w">>,
                ProjectEntry(<<"{root}", "\\", "app">>, exclude, port, jump, backup,
                             "make build", "systemctl restart app")) :
        exclude \in PatternLists(MaxExclude) \cup {<<"-">>},
        port \in {0, 2222},
        jump \in {"", "jump@bastion"},
        backup \in BackupDirs}
    \cup
    {OneProject(loc[1],
                ProjectEntry(loc[2], <<".git">>, 2222, "",
                             <<"/", "srv", "/", "bak-", "{timestamp}">>, pre, post)) :
        loc \in Locations,
        pre \in {"", "make build"},
        post \in {"", "systemctl restart app"}}

\* the command line when main() is not what runs
NoArgs ==
    [check_update |-> FALSE, open |-> FALSE, sync_config |-> FALSE,
     pre_send_project |-> "", post_send_project |-> "",
     project |-> "", dry_run |-> FALSE, include_env |-> FALSE]

\* filesystems for the calls of sync_project: the configuration beside the
\* script, and the global exclude file either nowhere or both at the first
\* place searched and beside the script
SyncFilesystems(plat, env) ==
    LET cands == GlobalExcludeCandidates(plat, env)
    IN  {{ScriptConfigPath(plat)},
         {ScriptConfigPath(plat), cands[1], cands[Len(cands)]}}

-----------------------------------------------------------------------------
(* One call of sync_project on a constructed SendRepo.                     *)

InitSync ==
    /\ platform \in Platforms
    /\ environ \in Environments
    /\ files \in SyncFilesystems(platform, environ)
    /\ document \in SyncDocuments
    /\ argv = NoArgs
    /\ specified_path = None
    /\ pc = "constructed"
    /\ config_path = FindConfigFile(platform, environ, files, specified_path)
    /\ config = LoadConfig(document)
    /\ projects = GetProjectChoices(LoadConfig(document))
    /\ ran = <<>>
    /\ sync = NoSync
    /\ exit_status = -1

\* the caller syncs one of the configured projects, once, as main() does
CallSyncProject ==
    /\ pc = "constructed"
    /\ \E project_name \in projects, dry_run \in BOOLEAN, include_env \in BOOLEAN :
            SyncProject(project_name, dry_run, include_env)
    /\ pc' = "returned"
    /\ UNCHANGED <<platform, environ, files, document, argv, specified_path,
                   config_path, projects, exit_status>>

NextSync == CallSyncProject

SpecSync == InitSync /\ [][NextSync]_vars

-----------------------------------------------------------------------------
(* The process: main()                                                     *)

\* check_for_updates(tool_name): the update checker starts git in the script
\* directory and always returns to main()
CheckForUpdates(plat, log, returncode) ==
    Append(log, Command("git", <<"git", "rev-parse", "--git-dir">>,
                        Join(ScriptDir(plat)), returncode))

\* the file managers open_sendrepo_folder tries on linux, in order
FileManagers == <<"xdg-open", "nautilus", "dolphin", "thunar", "nemo", "pcmanfm">>

\* open_sendrepo_folder(): explorer on win32, open on darwin; on linux the
\* file managers in turn, the first tried-1 of them failing, until one opens
\* the directory or the list is exhausted
OpenSendrepoFolder(plat, log, tried, returncode) ==
    LET script_dir == Join(ScriptDir(plat))
    IN  CASE plat = "win32" ->
                Append(log, Command("open", <<"explorer", script_dir>>, "", returncode))
          [] plat = "darwin" ->
                Append(log, Command("open", <<"open", script_dir>>, "", returncode))
          [] plat = "linux" ->
                log \o [i \in 1..tried |->
                            Command("open", <<FileManagers[i], script_dir>>, "",
                                    IF i < tried THEN 1 ELSE returncode)]
          [] OTHER -> log

\* run_pre_send(project_name): the commands started
RunPreSend(cfg, names, log, project_name, returncode) ==
    IF project_name \notin names THEN log
    ELSE LET project == cfg.projects[project_name]
         IN  IF "pre_send" \in DOMAIN project
             THEN Append(log, ShellCommand("pre_send", project.pre_send,
                                           Join(project.path), returncode))
             ELSE log

\* run_post_send(project_name): the commands started
RunPostSend(plat, cfg, names, log, project_name, returncode) ==
    IF project_name \notin names THEN log
    ELSE LET project == cfg.projects[project_name]
         IN  IF "post_send" \in DOMAIN project
             THEN Append(log, PostSendCommand(plat, project, returncode))
             ELSE log

\* sync_config() starts a command: the section and its command key are there
HasSyncCommand(cfg) ==
    /\ "config_sync" \in DOMAIN cfg
    /\ Get(cfg.config_sync, "command", "") # ""

\* a faulty variant: the exit code of the config_sync command is not looked at
ConfigSyncIgnored(return_code) == TRUE

\* "if return_code == 0" after the config_sync command: the reload, or sys.exit(1)
ConfigSyncSucceeded(return_code) == return_code = 0

\* the process ends with the given status
Exit(status) ==
    /\ pc' = "exited"
    /\ exit_status' = status

\* lines 470-472: --check-update is handled before the configuration is loaded
CheckUpdate ==
    /\ pc = "start"
    /\ argv.check_update
    /\ \E returncode \in ExitCodes : ran' = CheckForUpdates(platform, ran, returncode)
    /\ Exit(0)
    /\ UNCHANGED <<platform, environ, files, document, argv, specified_path,
                   config_path, config, projects, sync>>

\* SendRepo.__init__(config_path): find the file, load it, list the projects;
\* sys.exit(1) when no file is found
Construct ==
    /\ pc = "start"
    /\ ~argv.check_update
    /\ config_path' = FindConfigFile(platform, environ, files, specified_path)
    /\ IF config_path' = None
       THEN /\ Exit(1)
            /\ UNCHANGED <<config, projects>>
       ELSE /\ config' = LoadConfig(document)
            /\ projects' = GetProjectChoices(config')
            /\ pc' = "constructed"
            /\ UNCHANGED exit_status
    /\ UNCHANGED <<platform, environ, files, document, argv, specified_path, ran, sync>>

\* lines 477-479: --open
Open ==
    /\ pc = "constructed"
    /\ argv.open
    /\ \E tried \in 1..Len(FileManagers), returncode \in ExitCodes :
            /\ platform = "linux" /\ tried < Len(FileManagers) => returncode = 0
            /\ platform # "linux" => tried = 1
            /\ ran' = OpenSendrepoFolder(platform, ran, tried, returncode)
    /\ Exit(0)
    /\ UNCHANGED <<platform, environ, files, document, argv, specified_path,
                   config_path, config, projects, sync>>

\* lines 482-484: --pre-send PROJECT
ManualPreSend ==
    /\ pc = "constructed"
    /\ ~argv.open
    /\ argv.pre_send_project # ""
    /\ \E returncode \in ExitCodes :
            ran' = RunPreSend(config, projects, ran, argv.pre_send_project, returncode)
    /\ Exit(0)
    /\ UNCHANGED <<platform, environ, files, document, argv, specified_path,
                   config_path, config, projects, sync>>

\* lines 487-489: --post-send PROJECT
ManualPostSend ==
    /\ pc = "constructed"
    /\ ~argv.open
    /\ argv.pre_send_project = ""
    /\ argv.post_send_project # ""
    /\ \E returncode \in ExitCodes :
            ran' = RunPostSend(platform, config, projects, ran,
                               argv.post_send_project, returncode)
    /\ Exit(0)
    /\ UNCHANGED <<platform, environ, files, document, argv, specified_path,
                   config_path, config, projects, sync>>

\* a faulty variant: --open does not keep main() from going on
NoEarlyExitButOpen ==
    /\ argv.pre_send_project = ""
    /\ argv.post_send_project = ""

\* no early-exit option was given: main() goes on to line 491
NoEarlyExit ==
    /\ ~argv.open
    /\ argv.pre_send_project = ""
    /\ argv.post_send_project = ""

\* the documents the config_sync command may leave on disk: the one that was
\* there, one in which the projects are others, and one that also lost its
\* config_sync section
Rewritten(doc) ==
    LET others == [doc EXCEPT !.projects =
                      ("ghost" :> ProjectEntry(<<"{root}", "/", "ghost">>, <<".git">>,
                                               0, "", None, "make ghost", ""))]
    IN  {doc, others, [k \in DOMAIN others \ {"config_sync"} |-> others[k]]}

\* a faulty variant of the reload: the projects of the configuration in memory
\* are kept beside the ones read
ReloadMerging(cfg, doc) ==
    [LoadConfig(doc) EXCEPT !.projects = @ @@ cfg.projects]

\* lines 125: self.config = self._load_config(self.config_path), whatever
\* self.config held
Reload(cfg, doc) == LoadConfig(doc)

\* lines 491-492 and sync_config(): nothing is run when the section or its
\* command is missing; a command that returns 0 is followed by the reload, any
\* other exit code by sys.exit(1)
SyncConfig ==
    /\ pc = "constructed"
    /\ NoEarlyExit
    /\ argv.sync_config
    /\ IF ~HasSyncCommand(config)
       THEN /\ pc' = "config_synced"
            /\ UNCHANGED <<document, config, projects, ran, exit_status>>
       ELSE /\ document' \in Rewritten(document)
            /\ \E return_code \in ExitCodes :
                /\ ran' = Append(ran, ShellCommand("config_sync",
                                                   config.config_sync.command,
                                                   Join(DirName(config_path)),
                                                   return_code))
                /\ IF ConfigSyncSucceeded(return_code)
                   THEN /\ config' = Reload(config, document')
                        /\ projects' = GetProjectChoices(config')
                        /\ pc' = "config_synced"
                        /\ UNCHANGED exit_status
                   ELSE /\ Exit(1)
                        /\ UNCHANGED <<config, projects>>
    /\ UNCHANGED <<platform, environ, files, argv, specified_path, config_path, sync>>

\* a faulty variant: the positional project is not checked
AnyChoice(value, choices) == TRUE

\* line 501: choices=syncer.projects, the list as it is when the parser is built
ValidChoice(value, choices) == value \in choices

\* lines 494-510: the full parser; the positional project must be one of
\* syncer.projects (argparse exits with status 2 otherwise), and without a
\* project the help is printed
ParseArgs ==
    /\ \/ pc = "constructed" /\ NoEarlyExit /\ ~argv.sync_config
       \/ pc = "config_synced"
    /\ IF argv.project # "" /\ ~ValidChoice(argv.project, projects) THEN Exit(2)
       ELSE IF argv.project = "" THEN Exit(0)
       ELSE pc' = "parsed" /\ UNCHANGED exit_status
    /\ UNCHANGED <<platform, environ, files, document, argv, specified_path,
                   config_path, config, projects, ran, sync>>

\* line 512: syncer.sync_project(args.project, args.dry_run, args.include_env),
\* after which main() returns (an uncaught KeyError ends the process with
\* status 1)
MainSyncProject ==
    /\ pc = "parsed"
    /\ SyncProject(argv.project, argv.dry_run, argv.include_env)
    /\ Exit(IF sync'.state = "KeyError" THEN 1 ELSE 0)
    /\ UNCHANGED <<platform, environ, files, document, argv, specified_path,
                   config_path, projects>>

\* the project names a command line may carry: none, a configured one, and one
\* the document does not configure
ArgNames == {"", "app", "ghost"}

CommandLines ==
    [check_update : BOOLEAN, open : BOOLEAN, sync_config : BOOLEAN,
     pre_send_project : ArgNames, post_send_project : ArgNames,
     project : ArgNames, dry_run : BOOLEAN, include_env : BOOLEAN]

\* the config_sync section: missing, without its command, with its command
ConfigSyncSections(doc) ==
    {doc, doc @@ [config_sync |-> [remote |-> "origin"]],
     doc @@ [config_sync |-> [command |-> "git pull"]]}

\* documents for the process: the project "app" with both hooks or none, under
\* each config_sync section
MainDocuments ==
    UNION {ConfigSyncSections(
              OneProject(<<"~", "/", "w">>,
                         ProjectEntry(<<"{root}", "/", "app">>, <<".git">>, 2222, "",
                                      <<"/", "srv", "/", "bak-", "{timestamp}">>,
                                      hooks[1], hooks[2]))) :
           hooks \in {<<"", "">>, <<"make build", "systemctl restart app">>}}

\* filesystems for the process: no configuration anywhere, or one beside the script
MainFilesystems(plat) == {{}, {ScriptConfigPath(plat)}}

Init ==
    /\ platform \in Platforms
    /\ environ = {}
    /\ files \in MainFilesystems(platform)
    /\ document \in MainDocuments
    /\ argv \in CommandLines
    /\ specified_path = None
    /\ pc = "start"
    /\ config_path = None
    /\ config = <<>>
    /\ projects = {}
    /\ ran = <<>>
    /\ sync = NoSync
    /\ exit_status = -1

Next ==
    \/ CheckUpdate
    \/ Construct
    \/ Open
    \/ ManualPreSend
    \/ ManualPostSend
    \/ SyncConfig
    \/ ParseArgs
    \/ MainSyncProject

Spec == Init /\ [][Next]_vars

-----------------------------------------------------------------------------
(* Two calls on one constructed SendRepo: sync_project, run_pre_send or    *)
(* run_post_send, and then sync_project again.                             *)

\* documents for the two calls: the project "app" with each backup directory,
\* with both hooks or none
AgainDocuments ==
    {OneProject(<<"~", "/", "w">>,
                ProjectEntry(<<"{root}", "/", "app">>, <<".git">>, 2222, "", backup,
                             hooks[1], hooks[2])) :
        backup \in BackupDirs,
        hooks \in {<<"", "">>, <<"make build", "systemctl restart app">>}}

InitAgain ==
    /\ platform \in Platforms
    /\ environ = {}
    /\ files = {ScriptConfigPath(platform)}
    /\ document \in AgainDocuments
    /\ argv = NoArgs
    /\ specified_path = None
    /\ pc = "constructed"
    /\ config_path = FindConfigFile(platform, environ, files, specified_path)
    /\ config = LoadConfig(document)
    /\ projects = GetProjectChoices(LoadConfig(document))
    /\ ran = <<>>
    /\ sync = NoSync
    /\ exit_status = -1

\* the caller runs the pre-send hook of a project by hand, under a name that is
\* configured or one that is not
CallRunPreSend ==
    /\ pc = "constructed"
    /\ \E project_name \in projects \cup {"ghost"}, returncode \in ExitCodes :
            ran' = RunPreSend(config, projects, ran, project_name, returncode)
    /\ pc' = "returned"
    /\ UNCHANGED <<platform, environ, files, document, argv, specified_path,
                   config_path, config, projects, sync, exit_status>>

\* the caller runs the post-send hook of a project by hand
CallRunPostSend ==
    /\ pc = "constructed"
    /\ \E project_name \in projects \cup {"ghost"}, returncode \in ExitCodes :
            ran' = RunPostSend(platform, config, projects, ran, project_name, returncode)
    /\ pc' = "returned"
    /\ UNCHANGED <<platform, environ, files, document, argv, specified_path,
                   config_path, config, projects, sync, exit_status>>

\* the caller syncs a configured project after the first call returned
CallSyncProjectAgain ==
    /\ pc = "returned"
    /\ \E project_name \in projects, dry_run \in BOOLEAN, include_env \in BOOLEAN :
            SyncProject(project_name, dry_run, include_env)
    /\ pc' = "returned_twice"
    /\ UNCHANGED <<platform, environ, files, document, argv, specified_path,
                   config_path, projects, exit_status>>

NextAgain ==
    \/ CallSyncProject
    \/ CallRunPreSend
    \/ CallRunPostSend
    \/ CallSyncProjectAgain

SpecAgain == InitAgain /\ [][NextAgain]_vars

-----------------------------------------------------------------------------
(* SendRepo(config_path) constructed by a caller, on every filesystem.     *)

\* the places _find_config_file looks at, normalised
ConfigLocations(plat) ==
    {NormPath(ExplicitConfigPath(plat)), NormPath(EnvConfigPath(plat)),
     NormPath(UserConfigPath(plat)), NormPath(AdjacentConfigPath(plat)),
     NormPath(ScriptConfigPath(plat))}

InitResolve ==
    /\ platform \in Platforms
    /\ environ \in Environments
    /\ files \in SUBSET ConfigLocations(platform)
    /\ document \in {OneProject(<<"~", "/", "w">>,
                                ProjectEntry(<<"{root}", "/", "app">>, <<".git">>,
                                             2222, "", None, "", ""))}
    /\ argv = NoArgs
    /\ specified_path \in {None, ExplicitConfigPath(platform)}
    /\ pc = "start"
    /\ config_path = None
    /\ config = <<>>
    /\ projects = {}
    /\ ran = <<>>
    /\ sync = NoSync
    /\ exit_status = -1

NextResolve == Construct

SpecResolve == InitResolve /\ [][NextResolve]_vars

-----------------------------------------------------------------------------
(* SendRepo(config_path) constructed with an explicit path, then one call   *)
(* of sync_project, on every placement of the global exclude file.         *)

\* the directories _find_config_file's candidates lie in, each with the global
\* exclude file's name, in the resolver's order
ExcludeBesideConfigCandidates(plat, env, specified) ==
    LET beside(path) == PathJoin(plat, DirName(NormPath(path)), ".sr-ignore-global.txt")
    IN  (IF specified # None THEN <<beside(specified)>> ELSE <<>>)
        \o (IF GetEnvConfigPath(plat, env) # None
            THEN <<beside(GetEnvConfigPath(plat, env))>> ELSE <<>>)
        \o <<beside(UserConfigPath(plat)), beside(AdjacentConfigPath(plat)),
             beside(ScriptConfigPath(plat))>>

\* the places a global exclude file may lie at, normalised
ExcludeLocations(plat) ==
    LET cands == ExcludeBesideConfigCandidates(plat, {"SENDREPO_CONFIG_PATH"},
                                               ExplicitConfigPath(plat))
    IN  {NormPath(cands[i]) : i \in 1..Len(cands)}

InitLocate ==
    /\ platform \in Platforms
    /\ environ \in Environments
    /\ \E placed \in SUBSET ExcludeLocations(platform) :
            files = placed \cup {NormPath(ExplicitConfigPath(platform)),
                                 NormPath(ScriptConfigPath(platform))}
    /\ document \in {OneProject(<<"~", "/", "w">>,
                                ProjectEntry(<<"{root}", "/", "app">>, <<".git">>,
                                             2222, "", None, "", ""))}
    /\ argv = NoArgs
    /\ specified_path \in {None, ExplicitConfigPath(platform)}
    /\ pc = "start"
    /\ config_path = None
    /\ config = <<>>
    /\ projects = {}
    /\ ran = <<>>
    /\ sync = NoSync
    /\ exit_status = -1

NextLocate == Construct \/ CallSyncProject

SpecLocate == InitLocate /\ [][NextLocate]_vars

-----------------------------------------------------------------------------
(* Properties.                                                             *)

\* the positions of the log that hold a command of the given kind
Positions(kind) == {i \in 1..Len(ran) : ran[i].kind = kind}

\* the positions of the log that hold a command of the given kind that returned
\* a non-zero exit code
Failures(kind) == {i \in Positions(kind) : ran[i].returncode # 0}

\* the project the last sync_project call was about
SyncedProject == config.projects[sync.project_name]

\* the positions of an argument in a vector
ArgPositions(cmd, arg) == {i \in 1..Len(cmd) : cmd[i] = arg}

\* C1: _find_config_file returns the first existing candidate in the order
\* explicit path, SENDREPO_CONFIG_PATH, user directory, ../sendrepo-config,
\* script directory; toggling the existence of any candidate of lower priority
\* than the one returned leaves the result as it is; the result is None exactly
\* when no candidate exists.
C1_FirstExistingCandidate ==
    pc # "start" =>
        LET cands == (IF specified_path # None THEN <<specified_path>> ELSE <<>>)
                     \o (IF "SENDREPO_CONFIG_PATH" \in environ
                         THEN <<EnvConfigPath(platform)>> ELSE <<>>)
                     \o <<UserConfigPath(platform), AdjacentConfigPath(platform),
                          ScriptConfigPath(platform)>>
            existing == {i \in 1..Len(cands) : NormPath(cands[i]) \in files}
            first == CHOOSE i \in existing : \A j \in existing : i <= j
            Toggled(f) == IF f \in files THEN files \ {f} ELSE files \cup {f}
        IN  /\ (config_path = None) <=> (existing = {})
            /\ existing # {} =>
                /\ NormPath(config_path) = NormPath(cands[first])
                /\ \A k \in (first + 1)..Len(cands) :
                        FindConfigFile(platform, environ, Toggled(NormPath(cands[k])),
                                       specified_path) = config_path

\* C1 witness: an explicit path was given and does not exist, the file named by
\* the environment and the user file both exist, and the environment's won
C1_Witness ==
    /\ pc = "constructed"
    /\ specified_path # None
    /\ NormPath(specified_path) \notin files
    /\ "SENDREPO_CONFIG_PATH" \in environ
    /\ NormPath(EnvConfigPath(platform)) \in files
    /\ NormPath(UserConfigPath(platform)) \in files
    /\ config_path = EnvConfigPath(platform)

\* C2: when the pre-send hook of a sync_project call returns non-zero, the
\* mirroring tool is not started and the post-send hook is not run in that call.
C2_PreSendFailureStopsSync ==
    \A i \in Failures("pre_send") :
        /\ \A j \in 1..Len(ran) : j > i => ran[j].kind \notin {"rsync", "post_send"}
        /\ sync.state = "PreSendFailed"
        /\ sync.command = <<>>

\* C2 witness: a call whose pre-send hook returned non-zero has returned
C2_Witness ==
    /\ pc = "returned"
    /\ Failures("pre_send") # {}
    /\ "post_send" \in DOMAIN SyncedProject

\* C3: the platform check precedes the pre-send hook: a call that aborts because
\* WSL is unavailable on win32 has run no pre-send hook.
C3_PlatformCheckBeforePreSend ==
    (platform = "win32" /\ Failures("wsl_check") # {}) => Positions("pre_send") = {}

\* C4: on win32 with WSL unavailable the mirroring tool is never started and the
\* post-send hook never run.
C4_NoTransferWithoutWsl ==
    (platform = "win32" /\ Failures("wsl_check") # {}) =>
        /\ Positions("rsync") = {}
        /\ Positions("post_send") = {}
        /\ sync.state = "PlatformUnavailable"

\* C4 witness: a call on win32 whose WSL probe failed has returned, for a project
\* with a post-send hook and dry-run off
C4_Witness ==
    /\ pc = "returned"
    /\ platform = "win32"
    /\ Failures("wsl_check") # {}
    /\ ~sync.dry_run
    /\ "post_send" \in DOMAIN SyncedProject

\* C5: the exit status of the process is zero only when no fatal condition
\* occurred: a failed pre-send hook, a failed transfer, an unavailable platform
\* or a manual hook for an unknown project all give a non-zero status.
C5_ZeroExitOnlyWithoutFatal ==
    (pc = "exited" /\ exit_status = 0) =>
        /\ sync.state \notin {"PreSendFailed", "TransferFailed", "PlatformUnavailable"}
        /\ ~(/\ ~argv.check_update /\ ~argv.open
             /\ argv.pre_send_project # ""
             /\ argv.pre_send_project \notin projects)
        /\ ~(/\ ~argv.check_update /\ ~argv.open
             /\ argv.pre_send_project = ""
             /\ argv.post_send_project # ""
             /\ argv.post_send_project \notin projects)

\* C6: a dry run runs neither hook, whatever the project defines and the
\* transfer returns; the vector it builds holds --dry-run, and without that
\* flag is the vector built with dry_run=False for the same project and flags.
C6_DryRun ==
    (pc = "returned" /\ sync.dry_run) =>
        /\ Positions("pre_send") = {}
        /\ Positions("post_send") = {}
        /\ ArgPositions(sync.rsync_cmd, "--dry-run") # {}
        /\ \E now \in 0..MaxClock :
            /\ sync.timestamps \in {<<>>, <<Strftime(now)>>}
            /\ SelectSeq(sync.rsync_cmd, LAMBDA arg : arg # "--dry-run")
                 = RsyncCmd(platform, SyncedProject,
                            FindGlobalExcludeFile(platform, environ, files),
                            BackupDir(SyncedProject, now), FALSE, sync.include_env)

\* C6 witness: a dry run of a project with both hooks whose transfer succeeded
C6_Witness ==
    /\ pc = "returned"
    /\ sync.dry_run
    /\ sync.state = "Done"
    /\ "pre_send" \in DOMAIN SyncedProject
    /\ "post_send" \in DOMAIN SyncedProject
    /\ sync.timestamps # <<>>

\* C7: the post-send hook runs only after the mirroring tool was started in the
\* same call and returned zero, never after a non-zero transfer, and a non-zero
\* post-send exit leaves the call Done.
C7_PostSendOnlyAfterSuccess ==
    /\ \A i \in Positions("post_send") :
            \E j \in Positions("rsync") : j < i /\ ran[j].returncode = 0
    /\ \A j \in Failures("rsync") : \A i \in Positions("post_send") : i < j
    /\ Failures("rsync") # {} => sync.state = "TransferFailed"
    /\ Failures("post_send") # {} => sync.state = "Done" /\ sync.post_failed

\* C7 witness: a call whose transfer succeeded and whose post-send hook failed
C7_Witness ==
    /\ pc = "returned"
    /\ Failures("post_send") # {}
    /\ Failures("rsync") = {}

\* C8: a config_sync command that returns non-zero ends the process with a
\* non-zero status before any step of a project sync (no hook, no WSL probe, no
\* mirroring tool), and the configuration in memory is not reloaded.
C8_ConfigSyncFailureAborts ==
    /\ [](Failures("config_sync") # {} =>
            /\ pc = "exited"
            /\ exit_status # 0
            /\ \A i \in 1..Len(ran) : ran[i].kind = "config_sync"
            /\ sync = NoSync)
    /\ [][(/\ Len(ran') = Len(ran) + 1
           /\ ran'[Len(ran')].kind = "config_sync"
           /\ ran'[Len(ran')].returncode # 0)
          => (config' = config /\ projects' = projects)]_vars

\* C8 witness: the command failed with a project on the command line, having
\* left on disk a document that differs from the configuration in memory
C8_Witness ==
    /\ Failures("config_sync") # {}
    /\ argv.project = "app"
    /\ LoadConfig(document) # config

\* C9: with include_env the include rules for .env files come before every
\* exclude rule, the global --exclude-from and each project --exclude.
C9_IncludesBeforeExcludes ==
    (sync.include_env /\ sync.rsync_cmd # <<>>) =>
        /\ Cardinality(ArgPositions(sync.rsync_cmd, "--include")) = 2
        /\ \A i \in ArgPositions(sync.rsync_cmd, "--include") :
                /\ sync.rsync_cmd[i + 1] \in {".env", ".env.*"}
                /\ \A j \in ArgPositions(sync.rsync_cmd, "--exclude-from")
                            \cup ArgPositions(sync.rsync_cmd, "--exclude") : i + 1 < j

\* C9 witness: a vector with the include rules, the global exclude file and two
\* project excludes
C9_Witness ==
    /\ sync.include_env
    /\ ArgPositions(sync.rsync_cmd, "--exclude-from") # {}
    /\ Cardinality(ArgPositions(sync.rsync_cmd, "--exclude")) >= 2

\* C10: the vector holds at most one -e argument: with jump host and port one
\* -e naming both, with the port alone one -e naming the port, with neither no
\* -e at all.
C10_OneTransportOverride ==
    sync.rsync_cmd # <<>> =>
        LET cmd == sync.rsync_cmd
            at == ArgPositions(cmd, "-e")
            has_port == "port" \in DOMAIN SyncedProject
            has_jump == "ssh_jump_host" \in DOMAIN SyncedProject
        IN  /\ Cardinality(at) <= 1
            /\ (has_jump /\ has_port) =>
                    \E i \in at : cmd[i + 1] = "ssh -J " \o SyncedProject.ssh_jump_host
                                               \o " -p " \o ToString(SyncedProject.port)
            /\ (~has_jump /\ has_port) =>
                    \E i \in at : cmd[i + 1] = "ssh -p " \o ToString(SyncedProject.port)
            /\ (~has_jump /\ ~has_port) => at = {}

\* C10 witness: a vector built for a project with a jump host and a port
C10_Witness ==
    /\ sync.rsync_cmd # <<>>
    /\ "port" \in DOMAIN SyncedProject
    /\ "ssh_jump_host" \in DOMAIN SyncedProject

\* C11: the vector ends with the source path, translated for WSL on win32, and
\* then the remote destination; the project's exclude patterns are each given
\* with their own --exclude flag, in the configured order, before the source.
C11_ExcludesThenSourceThenDestination ==
    sync.rsync_cmd # <<>> =>
        LET cmd == sync.rsync_cmd
            n == Len(cmd)
            exclude == Get(SyncedProject, "exclude", <<>>)
            base == n - 2 - 2 * Len(exclude)
        IN  /\ cmd[n] = SyncedProject.remote
            /\ cmd[n - 1] = Join(WindowsToWslPath(platform, SyncedProject.path))
            /\ platform # "win32" => cmd[n - 1] = Join(SyncedProject.path)
            /\ Cardinality(ArgPositions(cmd, "--exclude")) = Len(exclude)
            /\ \A k \in 1..Len(exclude) :
                    /\ cmd[base + 2 * k - 1] = "--exclude"
                    /\ cmd[base + 2 * k] = exclude[k]

\* C11 witness: a vector built on win32 for a project under a drive letter, with
\* two different exclude patterns
C11_Witness ==
    /\ sync.rsync_cmd # <<>>
    /\ platform = "win32"
    /\ HasDrivePrefix(SyncedProject.path)
    /\ sync.rsync_cmd[Len(sync.rsync_cmd) - 1] = "/mnt/c/w/app"
    /\ Get(SyncedProject, "exclude", <<>>) = <<".env", ".git">>

\* C12: the vector holds --exclude-from exactly when the global exclude file
\* exists at one of the places searched; when it exists nowhere the argument is
\* left out and every project exclude pattern is still there.
C12_ExcludeFromIffFound ==
    sync.rsync_cmd # <<>> =>
        LET cmd == sync.rsync_cmd
            cands == GlobalExcludeCandidates(platform, environ)
            found == \E i \in 1..Len(cands) : NormPath(cands[i]) \in files
            exclude == Get(SyncedProject, "exclude", <<>>)
        IN  /\ (ArgPositions(cmd, "--exclude-from") # {}) <=> found
            /\ ~found =>
                /\ Cardinality(ArgPositions(cmd, "--exclude")) = Len(exclude)
                /\ \A k \in 1..Len(exclude) :
                        \E i \in ArgPositions(cmd, "--exclude") : cmd[i + 1] = exclude[k]

\* C12 witness: no global exclude file anywhere, and a vector with two project
\* excludes
C12_Witness ==
    /\ sync.rsync_cmd # <<>>
    /\ \A i \in 1..Len(GlobalExcludeCandidates(platform, environ)) :
            NormPath(GlobalExcludeCandidates(platform, environ)[i]) \notin files
    /\ Cardinality(ArgPositions(sync.rsync_cmd, "--exclude")) = 2

\* C13: the global exclude file sync_project uses is the one in the directory
\* of the first candidate of _find_config_file's list (explicit path,
\* environment variable, user directory, adjacent directory, script directory)
\* that holds such a file.
C13_LocatorFollowsResolverCandidates ==
    pc = "returned" =>
        LET expected == FirstExisting(files,
                            ExcludeBesideConfigCandidates(platform, environ, specified_path))
        IN  /\ (sync.global_exclude_file = None) <=> (expected = None)
            /\ expected # None => NormPath(sync.global_exclude_file) = NormPath(expected)

\* the vector sync_project builds for the synced project, the same global
\* exclude file and the same flags when datetime.now() reads the instant now
Rebuilt(now) ==
    RsyncCmd(platform, SyncedProject, sync.global_exclude_file,
             BackupDir(SyncedProject, now), sync.dry_run, sync.include_env)

\* C14 as stated: building the vector again for the same project, global
\* exclude file and flags gives the same vector, whatever the instant of the
\* second build, also for a backup directory with the timestamp placeholder.
C14_SameVectorAtAnyInstant ==
    sync.rsync_cmd # <<>> =>
        \A now \in 0..MaxClock : Rebuilt(now) = sync.rsync_cmd

\* C14 amended: a second build gives the same vector when the backup directory
\* has no timestamp placeholder or the clock reads the same instant; with the
\* placeholder and another instant the two vectors have the same length and
\* differ in the --backup-dir argument only.
C14_SameVectorUpToTimestamp ==
    sync.rsync_cmd # <<>> =>
        \A now \in 0..MaxClock :
            LET template == Get(SyncedProject, "backup_dir", None)
                same_instant == /\ sync.timestamps # <<>>
                                /\ sync.timestamps[1] = Strftime(now)
                again == Rebuilt(now)
            IN  /\ (~HasTimestamp(template) \/ same_instant) => again = sync.rsync_cmd
                /\ Len(again) = Len(sync.rsync_cmd)
                /\ \A i \in 1..Len(sync.rsync_cmd) :
                        again[i] # sync.rsync_cmd[i] =>
                            /\ HasTimestamp(template)
                            /\ i > 1 /\ sync.rsync_cmd[i - 1] = "--backup"
                            /\ again[i - 1] = "--backup"

\* C14 witness: a vector built from a template with the placeholder, which a
\* build at another instant does not reproduce
C14_Witness ==
    /\ sync.rsync_cmd # <<>>
    /\ HasTimestamp(Get(SyncedProject, "backup_dir", None))
    /\ \E now \in 0..MaxClock : Rebuilt(now) # sync.rsync_cmd
    /\ \E now \in 0..MaxClock : Rebuilt(now) = sync.rsync_cmd

\* C15: one sync_project call reads the clock at most once; the backup
\* directory printed to the user is the one in the --backup-dir argument; and a
\* template with the placeholder reaches the vector with the captured timestamp
\* in the placeholder's place, never as written.
C15_OneTimestampPrintedAndUsed ==
    sync.project_name # "" =>
        LET cmd == sync.rsync_cmd
            template == Get(SyncedProject, "backup_dir", None)
            backup_args == {i \in 1..Len(cmd) : i > 1 /\ cmd[i - 1] = "--backup"}
        IN  /\ Len(sync.timestamps) <= 1
            /\ sync.timestamps # <<>> <=> HasTimestamp(template)
            /\ Cardinality(backup_args) <= 1
            /\ sync.backup_printed # "" =>
                    \E i \in backup_args : cmd[i] = "--backup-dir=" \o sync.backup_printed
            /\ cmd # <<>> /\ HasTimestamp(template) =>
                    \E i \in backup_args :
                        /\ cmd[i] = "--backup-dir="
                                    \o Join(FormatTokens(template, "{timestamp}", sync.timestamps))
                        /\ cmd[i] # "--backup-dir=" \o Join(template)

\* C15 witness: a transfer was started for a project whose backup directory has
\* the placeholder, and the directory was printed
C15_Witness ==
    /\ sync.state = "Done"
    /\ sync.timestamps = <<Strftime(1)>>
    /\ sync.backup_printed = "/srv/bak-" \o Strftime(1)

\* the early-exit option main() acts on: the first one given, in the order of
\* the tests at lines 470, 477, 482 and 487 ("" when none is given)
EarlyOption ==
    IF argv.check_update THEN "git"
    ELSE IF argv.open THEN "open"
    ELSE IF argv.pre_send_project # "" THEN "pre_send"
    ELSE IF argv.post_send_project # "" THEN "post_send"
    ELSE ""

\* C16 as stated: whenever an early-exit option is given, main() performs that
\* operation before it returns; here for --open, which always starts a command.
C16_EarlyOperationAlwaysPerformed ==
    pc = "exited" /\ EarlyOption = "open" => Positions("open") # {}

\* C16 amended: with an early-exit option, only commands of the first option
\* given are ever started, config-sync and the mirroring tool never run, the
\* positional project is never validated, and --check-update runs with no
\* configuration located or loaded; the operation is performed before main()
\* returns, unless the option is not --check-update and no configuration file
\* is found, when the process ends with status 1 and has started nothing.
C16_EarlyExitShortCircuits ==
    EarlyOption # "" =>
        /\ \A i \in 1..Len(ran) : ran[i].kind = EarlyOption
        /\ sync = NoSync
        /\ pc \notin {"config_synced", "parsed"}
        /\ exit_status \in {-1, 0, 1}
        /\ argv.check_update => config_path = None /\ config = <<>> /\ exit_status # 1
        /\ exit_status = 1 => config_path = None /\ ran = <<>>
        /\ exit_status = 0 /\ EarlyOption \in {"git", "open"} => ran # <<>>
        /\ exit_status = 0 /\ EarlyOption = "pre_send" =>
                Cardinality(Positions("pre_send"))
                    = IF /\ argv.pre_send_project \in projects
                         /\ "pre_send" \in DOMAIN config.projects[argv.pre_send_project]
                      THEN 1 ELSE 0
        /\ exit_status = 0 /\ EarlyOption = "post_send" =>
                Cardinality(Positions("post_send"))
                    = IF /\ argv.post_send_project \in projects
                         /\ "post_send" \in DOMAIN config.projects[argv.post_send_project]
                      THEN 1 ELSE 0

\* C16 witness: --open given with --sync-config and a project the configuration
\* does not have, under a configuration with a config_sync command; the folder
\* was opened and main() returned
C16_Witness ==
    /\ argv.open /\ ~argv.check_update /\ argv.sync_config
    /\ argv.project = "ghost"
    /\ pc = "exited" /\ exit_status = 0
    /\ HasSyncCommand(config)
    /\ Positions("open") # {}

\* C17: a config-sync whose command returned 0 leaves in memory the document
\* as it is on disk then, every project path with the expanded root in place of
\* the placeholder, and nothing of the configuration held before; a config-sync
\* without a config_sync section or without its command key starts no command
\* and leaves the configuration as it was.
C17_ReloadReplacesConfig ==
    [][(pc = "constructed" /\ pc' = "config_synced") =>
        IF HasSyncCommand(config)
        THEN /\ Len(ran') = Len(ran) + 1
             /\ ran'[Len(ran')].kind = "config_sync" /\ ran'[Len(ran')].returncode = 0
             /\ DOMAIN config' = DOMAIN document'
             /\ \A k \in DOMAIN document' \ {"projects"} : config'[k] = document'[k]
             /\ DOMAIN config'.projects = DOMAIN document'.projects
             /\ projects' = DOMAIN document'.projects
             /\ \A name \in DOMAIN document'.projects :
                    LET loaded == config'.projects[name]
                        read == document'.projects[name]
                    IN  /\ DOMAIN loaded = DOMAIN read
                        /\ \A k \in DOMAIN read \ {"path"} : loaded[k] = read[k]
                        /\ loaded.path = FormatTokens(read.path, "{root}",
                                                      ExpandUser(document'.root))
                        /\ \A i \in 1..Len(loaded.path) :
                                loaded.path[i] \notin {"{root}", "~"}
        ELSE /\ ran' = ran
             /\ config' = config
             /\ projects' = projects]_vars

\* C17 witness: the config_sync command returned 0 and the reload dropped the
\* project "app" and the config_sync section the configuration had
C17_Witness ==
    /\ pc = "config_synced"
    /\ Failures("config_sync") = {} /\ Positions("config_sync") # {}
    /\ DOMAIN config.projects = {"ghost"}
    /\ config.projects["ghost"].path = <<"/", "home", "/", "u", "/", "w", "/", "ghost">>
    /\ "config_sync" \notin DOMAIN config

\* C18: sync_project is only called with a project the configuration in memory
\* has; after --sync-config reloaded the configuration the positional project
\* is checked against the reloaded projects, so that a project the reload
\* removed is refused by the parser (exit status 2) and nothing is synced.
C18_OnlyConfiguredProjectsSynced ==
    /\ sync # NoSync =>
            /\ sync.project_name \in DOMAIN config.projects
            /\ sync.project_name \in projects
            /\ sync.state # "KeyError"
    /\ projects = DOMAIN Get(config, "projects", <<>>)
    /\ (/\ pc = "exited" /\ EarlyOption = "" /\ config_path # None
        /\ argv.project # "" /\ argv.project \notin projects
        /\ Failures("config_sync") = {}) =>
            /\ exit_status = 2
            /\ sync = NoSync
            /\ Positions("rsync") = {} /\ Positions("pre_send") = {}

\* C18 witness: "app" was configured when the process started, the reload after
\* a config_sync that returned 0 removed it, and the parser refused it
C18_Witness ==
    /\ argv.project = "app" /\ argv.sync_config
    /\ Positions("config_sync") # {} /\ Failures("config_sync") = {}
    /\ "app" \notin DOMAIN document.projects
    /\ projects = {"ghost"}
    /\ pc = "exited" /\ exit_status = 2 /\ sync = NoSync

\* C19: one sync_project call starts the pre-send hook, the WSL probe, the
\* mirroring tool and the post-send hook at most once each, the hook before the
\* tool and the tool before the post-send hook; a pre-send hook, a WSL probe or
\* a transfer that failed is the last command the call starts.
C19_EachStepOnceInOrder ==
    LET call == {i \in 1..Len(ran) : i > sync.from}
        at(kind) == Positions(kind) \cap call
    IN  /\ \A kind \in {"pre_send", "wsl_check", "rsync", "post_send"} :
                Cardinality(at(kind)) <= 1
        /\ \A i \in call : ran[i].kind \in {"pre_send", "wsl_check", "rsync", "post_send"}
        /\ \A i \in at("pre_send"), j \in at("wsl_check") \cup at("rsync") \cup at("post_send") :
                i < j
        /\ \A i \in at("wsl_check"), j \in at("rsync") \cup at("post_send") : i < j
        /\ \A i \in at("rsync"), j \in at("post_send") : i < j
        /\ \A kind \in {"pre_send", "wsl_check", "rsync"} :
                \A i \in Failures(kind) \cap call : i = Len(ran)
        /\ sync.state = "PreSendFailed" =>
                Failures("pre_send") \cap call # {} /\ at("rsync") = {}
        /\ sync.state \in {"PlatformUnavailable", "UnsupportedPlatform"} =>
                at("rsync") = {} /\ at("post_send") = {}
        /\ sync.state = "TransferFailed" =>
                Failures("rsync") \cap call # {} /\ at("post_send") = {}

\* C19 witness: the hook passed and the transfer failed on a project with a
\* post-send hook, outside dry-run
C19_Witness ==
    /\ sync.state = "TransferFailed"
    /\ ~sync.dry_run
    /\ Get(SyncedProject, "post_send", "") # ""
    /\ Positions("pre_send") # {} /\ Failures("pre_send") = {}
    /\ Failures("rsync") = {Len(ran)}

\* C20: a process started with --dry-run starts no pre-send and no post-send
\* hook, also when --pre-send or --post-send is on the command line.
C20_NoHookWithDryRunFlag ==
    argv.dry_run => Positions("pre_send") = {} /\ Positions("post_send") = {}

\* the fields a project entry may have
ProjectFields ==
    {"path", "remote", "exclude", "port", "ssh_jump_host", "backup_dir",
     "pre_send", "post_send"}

\* C21: a call of sync_project, run_pre_send or run_post_send, whatever its
\* outcome, leaves the project list and every field of every project as they
\* were; after one or two calls the configuration is still the loaded document,
\* and a second sync builds its backup directory from the template as
\* configured and runs the hook as configured.
C21_CallsLeaveConfigUnchanged ==
    /\ [](/\ config = LoadConfig(document)
          /\ projects = DOMAIN document.projects
          /\ (pc = "returned_twice" /\ sync.rsync_cmd # <<>>) =>
                LET template == Get(document.projects[sync.project_name], "backup_dir", None)
                    cmd == sync.rsync_cmd
                IN  /\ template # None
                        => \E i \in 2..Len(cmd) :
                                /\ cmd[i - 1] = "--backup"
                                /\ cmd[i] = "--backup-dir="
                                        \o Join(FormatTokens(template, "{timestamp}",
                                                             sync.timestamps))
                    /\ template = None => ArgPositions(cmd, "--backup") = {}
                    /\ \A i \in Positions("pre_send") :
                            ran[i].args = <<document.projects[sync.project_name].pre_send>>)
    /\ [][pc' # pc =>
            /\ projects' = projects
            /\ DOMAIN config'.projects = DOMAIN config.projects
            /\ \A name \in DOMAIN config.projects :
                    /\ DOMAIN config'.projects[name] = DOMAIN config.projects[name]
                    /\ \A field \in ProjectFields \cap DOMAIN config.projects[name] :
                            config'.projects[name][field] = config.projects[name][field]]_vars

\* C21 witness: two syncs of a project whose backup directory has the
\* placeholder, both started, at different instants, so that the two vectors
\* name different backup directories
C21_Witness ==
    /\ pc = "returned_twice"
    /\ Cardinality(Positions("rsync")) = 2
    /\ \E i, j \in Positions("rsync") : ran[i].args # ran[j].args
    /\ HasTimestamp(Get(SyncedProject, "backup_dir", None))
    /\ sync.timestamps = <<Strftime(1)>>
    /\ SyncedProject.backup_dir = <<"/", "srv", "/", "bak-", "{timestamp}">>

\* C22: once SendRepo is constructed, and after sync_config whatever it did
\* (no section, no command, a reload), the project list is exactly the set of
\* keys of the projects of the configuration in memory, and run_pre_send and
\* run_post_send start no command for a name that is not in the list.
C22_ProjectListIsConfigKeys ==
    (pc # "start" /\ config_path # None) =>
        /\ projects = DOMAIN Get(config, "projects", <<>>)
        /\ \A name \in {"app", "ghost", "other"} \ projects, returncode \in ExitCodes :
                /\ RunPreSend(config, projects, ran, name, returncode) = ran
                /\ RunPostSend(platform, config, projects, ran, name, returncode) = ran
        /\ (/\ pc = "exited" /\ EarlyOption = "pre_send"
            /\ argv.pre_send_project \notin projects) => ran = <<>>
        /\ (/\ pc = "exited" /\ EarlyOption = "post_send"
            /\ argv.post_send_project \notin projects) => ran = <<>>

\* C22 witness: the reload after a config_sync that returned 0 took "app",
\* which has a pre-send hook in the document the process started with, out of
\* the list, and listed "ghost"
C22_Witness ==
    /\ pc = "config_synced"
    /\ Positions("config_sync") # {} /\ Failures("config_sync") = {}
    /\ "config_sync" \in DOMAIN config
    /\ projects = {"ghost"}
    /\ DOMAIN config.projects = {"ghost"}
    /\ RunPreSend(config, projects, ran, "app", 0) = ran
    /\ Len(RunPreSend(config, projects, ran, "ghost", 0)) = Len(ran) + 1

====
